---------------------------- MODULE Spec2Model ----------------------------
(***************************************************************************)
(* A model of exprcalc.evaluator: the whitelist tables, the tree-walking   *)
(* _Evaluator, _prepare_context and the entry point evaluate_expression.   *)
(*                                                                         *)
(* One call is modelled as one action.  The action computes the whole walk *)
(* with the recursive operator visit and records, besides the outcome, the *)
(* ordered log of what the walk did (nodes entered, values returned,       *)
(* exceptions raised, callees invoked), so that ordering properties of the *)
(* walk are state predicates on the log.                                   *)
(***************************************************************************)
EXTENDS Integers, Sequences, FiniteSets, TLC

VARIABLES
    DEFAULT_CONSTANTS,  \* module-level dict, evaluator.py:60
    DEFAULT_FUNCTIONS,  \* module-level dict, evaluator.py:46-58
    pc,                 \* "called": a call is about to run; "done": it ended
    args,               \* the arguments of the current call, as passed
    callerVariables,    \* the caller's variables mapping object, as it is now
    callerFunctions,    \* the caller's functions mapping object, as it is now
    context,            \* the _Context built for the current call
    outcome,            \* how the current call ended
    trace,              \* the ordered log of the current call's walk
    first,              \* arguments and outcome of the first call that ended
    calls               \* the number of calls made so far

vars == <<DEFAULT_CONSTANTS, DEFAULT_FUNCTIONS, pc, args, callerVariables,
          callerFunctions, context, outcome, trace, first, calls>>

-----------------------------------------------------------------------------
(* Bounds of the model.                                                    *)

\* longest operand / element / argument list of a generated syntax tree
MaxOperands == 2
\* most comparison operators in a generated comparison chain
MaxChain == 2
\* most entries in a generated mapping literal
MaxEntries == 2
\* most calls in one behaviour of SpecCalls
MaxCalls == 3

-----------------------------------------------------------------------------
(* Python values.  Every value is a record tagged by its Python type name. *)
(* A float is an exact rational n/d in lowest terms with d > 0.            *)

IntV(n) == [t |-> "int", v |-> n]
BoolV(b) == [t |-> "bool", v |-> b]
NoneV == [t |-> "NoneType"]
ListV(s) == [t |-> "list", v |-> s]
TupleV(s) == [t |-> "tuple", v |-> s]
\* a set value holds its members as a sequence without equal members
SetV(s) == [t |-> "set", v |-> s]
\* a dict value holds its items as a sequence of <<key, value>>, keys unequal
DictV(s) == [t |-> "dict", v |-> s]
\* a value standing for a result the model does not compute
Unmodelled == [t |-> "unmodelled"]

Abs(n) == IF n < 0 THEN -n ELSE n

RECURSIVE Gcd(_, _)
Gcd(a, b) == IF b = 0 THEN a ELSE Gcd(b, a - b * (a \div b))

FloatV(n, d) ==
    LET s == IF d < 0 THEN -1 ELSE 1
        g == Gcd(Abs(n), Abs(d))
    IN  [t |-> "float", n |-> (s * n) \div g, d |-> (s * d) \div g]

IsNum(x) == x.t \in {"int", "bool", "float"}
IsFloat(x) == x.t = "float"
\* numerator and denominator of a number (bool is a subclass of int)
NumOf(x) == IF x.t = "int" THEN x.v
            ELSE IF x.t = "bool" THEN (IF x.v THEN 1 ELSE 0)
            ELSE x.n
DenOf(x) == IF x.t = "float" THEN x.d ELSE 1

\* bool(x)
Truthy(x) ==
    IF x.t = "bool" THEN x.v
    ELSE IF IsNum(x) THEN NumOf(x) # 0
    ELSE IF x.t = "NoneType" THEN FALSE
    ELSE IF x.t \in {"list", "tuple", "set", "dict"} THEN Len(x.v) > 0
    ELSE TRUE

\* x == y
RECURSIVE PyEq(_, _)
PyEq(x, y) ==
    IF IsNum(x) /\ IsNum(y) THEN NumOf(x) * DenOf(y) = NumOf(y) * DenOf(x)
    ELSE IF x.t # y.t THEN FALSE
    ELSE IF x.t = "NoneType" THEN TRUE
    ELSE IF x.t \in {"list", "tuple"}
        THEN /\ Len(x.v) = Len(y.v)
             /\ \A i \in 1..Len(x.v) : PyEq(x.v[i], y.v[i])
    ELSE IF x.t = "set"
        THEN /\ Len(x.v) = Len(y.v)
             /\ \A i \in 1..Len(x.v) : \E j \in 1..Len(y.v) : PyEq(x.v[i], y.v[j])
    ELSE IF x.t = "dict"
        THEN /\ Len(x.v) = Len(y.v)
             /\ \A i \in 1..Len(x.v) : \E j \in 1..Len(y.v) :
                    PyEq(x.v[i][1], y.v[j][1]) /\ PyEq(x.v[i][2], y.v[j][2])
    ELSE x = y

\* whether hash(x) succeeds
RECURSIVE Hashable(_)
Hashable(x) ==
    IF x.t \in {"list", "set", "dict"} THEN FALSE
    ELSE IF x.t = "tuple" THEN \A i \in 1..Len(x.v) : Hashable(x.v[i])
    ELSE TRUE

-----------------------------------------------------------------------------
(* Exceptions and the result of a step.                                    *)

\* an exception: its class name and its message, a tuple of strings
Exc(type, msg) == [type |-> type, msg |-> msg]
NoExc == Exc("none", <<>>)
\* the classes derived from BaseException but not from Exception
NotExceptionSubclass == {"SystemExit", "KeyboardInterrupt", "GeneratorExit"}
IsException(e) == e.type \notin NotExceptionSubclass

EvaluationError(msg) == Exc("EvaluationError", msg)

Ret(v) == [ok |-> TRUE, val |-> v, exc |-> NoExc]
Raise(e) == [ok |-> FALSE, val |-> NoneV, exc |-> e]

-----------------------------------------------------------------------------
(* The semantic functions of the operator module, on the values above.     *)
(* Arithmetic is exact on the rationals; where Python defines a result the *)
(* model does not compute (sequence concatenation and repetition, set      *)
(* difference, ordering of containers, a fractional exponent) the result   *)
(* is Unmodelled, and NoUnmodelled below checks that no call of the model  *)
(* meets such a case.                                                      *)

RECURSIVE IntPow(_, _)
IntPow(b, e) == IF e = 0 THEN 1 ELSE b * IntPow(b, e - 1)

\* a number from a rational: an int when neither operand was a float
NumV(n, d, asFloat) == IF asFloat THEN FloatV(n, d) ELSE IntV(n \div d)

OperandTypeError(op, l, r) ==
    Raise(Exc("TypeError", <<"unsupported operand type(s)", op, l.t, r.t>>))

ZeroDivision == Raise(Exc("ZeroDivisionError", <<"division by zero">>))

SameContainer(l, r, kinds) == l.t = r.t /\ l.t \in kinds

operator_add(l, r) ==
    IF IsNum(l) /\ IsNum(r)
        THEN Ret(NumV(NumOf(l) * DenOf(r) + NumOf(r) * DenOf(l), DenOf(l) * DenOf(r),
                      IsFloat(l) \/ IsFloat(r)))
    ELSE IF SameContainer(l, r, {"list", "tuple"}) THEN Ret(Unmodelled)
    ELSE OperandTypeError("+", l, r)

operator_sub(l, r) ==
    IF IsNum(l) /\ IsNum(r)
        THEN Ret(NumV(NumOf(l) * DenOf(r) - NumOf(r) * DenOf(l), DenOf(l) * DenOf(r),
                      IsFloat(l) \/ IsFloat(r)))
    ELSE IF SameContainer(l, r, {"set"}) THEN Ret(Unmodelled)
    ELSE OperandTypeError("-", l, r)

operator_mul(l, r) ==
    IF IsNum(l) /\ IsNum(r)
        THEN Ret(NumV(NumOf(l) * NumOf(r), DenOf(l) * DenOf(r),
                      IsFloat(l) \/ IsFloat(r)))
    ELSE IF \/ l.t \in {"list", "tuple"} /\ r.t \in {"int", "bool"}
            \/ r.t \in {"list", "tuple"} /\ l.t \in {"int", "bool"}
        THEN Ret(Unmodelled)
    ELSE OperandTypeError("*", l, r)

operator_truediv(l, r) ==
    IF IsNum(l) /\ IsNum(r)
        THEN IF NumOf(r) = 0 THEN ZeroDivision
             ELSE Ret(FloatV(NumOf(l) * DenOf(r), DenOf(l) * NumOf(r)))
    ELSE OperandTypeError("/", l, r)

\* floor(l / r) for r # 0
FloorQuot(l, r) == (NumOf(l) * DenOf(r)) \div (DenOf(l) * NumOf(r))

operator_floordiv(l, r) ==
    IF IsNum(l) /\ IsNum(r)
        THEN IF NumOf(r) = 0 THEN ZeroDivision
             ELSE Ret(NumV(FloorQuot(l, r), 1, IsFloat(l) \/ IsFloat(r)))
    ELSE OperandTypeError("//", l, r)

operator_mod(l, r) ==
    IF IsNum(l) /\ IsNum(r)
        THEN IF NumOf(r) = 0 THEN ZeroDivision
             ELSE Ret(NumV(NumOf(l) * DenOf(r) - NumOf(r) * FloorQuot(l, r) * DenOf(l),
                           DenOf(l) * DenOf(r), IsFloat(l) \/ IsFloat(r)))
    ELSE OperandTypeError("%", l, r)

operator_pow(l, r) ==
    IF IsNum(l) /\ IsNum(r)
        THEN IF DenOf(r) # 1 THEN Ret(Unmodelled)
             ELSE IF NumOf(r) >= 0
                 THEN Ret(NumV(IntPow(NumOf(l), NumOf(r)), IntPow(DenOf(l), NumOf(r)),
                               IsFloat(l) \/ IsFloat(r)))
             ELSE IF NumOf(l) = 0 THEN ZeroDivision
             ELSE Ret(FloatV(IntPow(DenOf(l), -NumOf(r)), IntPow(NumOf(l), -NumOf(r))))
    ELSE OperandTypeError("**", l, r)

operator_pos(x) ==
    IF IsNum(x) THEN Ret(NumV(NumOf(x), DenOf(x), IsFloat(x)))
    ELSE Raise(Exc("TypeError", <<"bad operand type for unary", "+", x.t>>))

operator_neg(x) ==
    IF IsNum(x) THEN Ret(NumV(-NumOf(x), DenOf(x), IsFloat(x)))
    ELSE Raise(Exc("TypeError", <<"bad operand type for unary", "-", x.t>>))

operator_not_(x) == Ret(BoolV(~Truthy(x)))

operator_eq(l, r) == Ret(BoolV(PyEq(l, r)))
operator_ne(l, r) == Ret(BoolV(~PyEq(l, r)))

\* the four ordering operators; rel is the relation on cross-multiplied ints
Ordering(op, l, r, holds) ==
    IF IsNum(l) /\ IsNum(r) THEN Ret(BoolV(holds))
    ELSE IF SameContainer(l, r, {"list", "tuple", "set"}) THEN Ret(Unmodelled)
    ELSE Raise(Exc("TypeError", <<"not supported between instances of", op, l.t, r.t>>))

LeftScaled(l, r) == NumOf(l) * DenOf(r)
RightScaled(l, r) == NumOf(r) * DenOf(l)

operator_lt(l, r) == Ordering("<", l, r, IsNum(l) /\ IsNum(r) /\ LeftScaled(l, r) < RightScaled(l, r))
operator_le(l, r) == Ordering("<=", l, r, IsNum(l) /\ IsNum(r) /\ LeftScaled(l, r) <= RightScaled(l, r))
operator_gt(l, r) == Ordering(">", l, r, IsNum(l) /\ IsNum(r) /\ LeftScaled(l, r) > RightScaled(l, r))
operator_ge(l, r) == Ordering(">=", l, r, IsNum(l) /\ IsNum(r) /\ LeftScaled(l, r) >= RightScaled(l, r))

-----------------------------------------------------------------------------
(* The whitelist tables: syntactic operator kind |-> semantic function.    *)

_ALLOWED_BIN_OPS ==
    [k \in {"Add", "Sub", "Mult", "Div", "FloorDiv", "Mod", "Pow"} |->
        CASE k = "Add" -> "add"
          [] k = "Sub" -> "sub"
          [] k = "Mult" -> "mul"
          [] k = "Div" -> "truediv"
          [] k = "FloorDiv" -> "floordiv"
          [] k = "Mod" -> "mod"
          [] k = "Pow" -> "pow"]

_ALLOWED_UNARY_OPS ==
    [k \in {"UAdd", "USub", "Not"} |->
        CASE k = "UAdd" -> "pos"
          [] k = "USub" -> "neg"
          [] k = "Not" -> "not_"]

\* the two entries are the lambdas all(values) and any(values)
_ALLOWED_BOOL_OPS ==
    [k \in {"And", "Or"} |->
        CASE k = "And" -> "all"
          [] k = "Or" -> "any"]

_ALLOWED_COMPARE_OPS ==
    [k \in {"Eq", "NotEq", "Lt", "LtE", "Gt", "GtE"} |->
        CASE k = "Eq" -> "eq"
          [] k = "NotEq" -> "ne"
          [] k = "Lt" -> "lt"
          [] k = "LtE" -> "le"
          [] k = "Gt" -> "gt"
          [] k = "GtE" -> "ge"]

\* calling a table entry
ApplyBinary(f, l, r) ==
    CASE f = "add" -> operator_add(l, r)
      [] f = "sub" -> operator_sub(l, r)
      [] f = "mul" -> operator_mul(l, r)
      [] f = "truediv" -> operator_truediv(l, r)
      [] f = "floordiv" -> operator_floordiv(l, r)
      [] f = "mod" -> operator_mod(l, r)
      [] f = "pow" -> operator_pow(l, r)
      [] f = "eq" -> operator_eq(l, r)
      [] f = "ne" -> operator_ne(l, r)
      [] f = "lt" -> operator_lt(l, r)
      [] f = "le" -> operator_le(l, r)
      [] f = "gt" -> operator_gt(l, r)
      [] f = "ge" -> operator_ge(l, r)

ApplyUnary(f, x) ==
    CASE f = "pos" -> operator_pos(x)
      [] f = "neg" -> operator_neg(x)
      [] f = "not_" -> operator_not_(x)

-----------------------------------------------------------------------------
(* Callables.  A callable is a record naming the function; PythonCall is   *)
(* what calling it with positional arguments a (a sequence of values) and  *)
(* keyword arguments kw (a sequence of <<name, value>>) does.              *)

Function(name) == [t |-> "function", name |-> name]

IsIterable(x) == x.t \in {"list", "tuple", "set", "dict"}
\* what iterating over x yields (a dict yields its keys)
Elements(x) == IF x.t = "dict" THEN [i \in 1..Len(x.v) |-> x.v[i][1]] ELSE x.v

ArgumentTypeError(name) == Raise(Exc("TypeError", <<"bad arguments for", name>>))

\* builtins.sum(s): 0 + s[1] + s[2] + ...
RECURSIVE SumFrom(_, _, _)
SumFrom(s, i, acc) ==
    IF i > Len(s) THEN Ret(acc)
    ELSE LET r == operator_add(acc, s[i])
         IN  IF r.ok THEN SumFrom(s, i + 1, r.val) ELSE r

\* builtins.min / builtins.max over a non-empty sequence of numbers:
\* the first of the smallest (largest)
RECURSIVE BestFrom(_, _, _, _)
BestFrom(s, i, best, largest) ==
    IF i > Len(s) THEN best
    ELSE LET better == IF largest THEN operator_gt(s[i], best).val.v
                       ELSE operator_lt(s[i], best).val.v
         IN  BestFrom(s, i + 1, IF better THEN s[i] ELSE best, largest)

MinMax(name, a, kw, largest) ==
    LET s == IF Len(a) = 1 /\ IsIterable(a[1]) THEN Elements(a[1]) ELSE a
    IN  IF Len(a) = 0 \/ (Len(a) = 1 /\ ~IsIterable(a[1])) THEN ArgumentTypeError(name)
        ELSE IF \E i \in 1..Len(kw) : kw[i][1] \notin {"key", "default"}
            THEN ArgumentTypeError(name)
        ELSE IF Len(kw) > 0 THEN Ret(Unmodelled)
        ELSE IF Len(s) = 0
            THEN Raise(Exc("ValueError", <<name, "arg is an empty sequence">>))
        ELSE IF \A i \in 1..Len(s) : IsNum(s[i]) THEN Ret(BestFrom(s, 2, s[1], largest))
        ELSE IF Len(s) = 1 THEN Ret(s[1])
        ELSE IF \E i \in 1..Len(s) : s[i].t \in {"NoneType", "dict"}
            THEN ArgumentTypeError(name)
        ELSE Ret(Unmodelled)

\* round(x) to the nearest int, ties to the even one
RoundHalfEven(x) ==
    LET q == NumOf(x) \div DenOf(x)
        twice == 2 * (NumOf(x) - q * DenOf(x))
    IN  IF twice < DenOf(x) THEN q
        ELSE IF twice > DenOf(x) THEN q + 1
        ELSE IF q = 2 * (q \div 2) THEN q ELSE q + 1

PythonCall(fn, a, kw) ==
    LET name == fn.name
        oneNumber == Len(a) = 1 /\ Len(kw) = 0 /\ IsNum(a[1])
    IN  CASE name = "math.floor" ->
                IF oneNumber THEN Ret(IntV(NumOf(a[1]) \div DenOf(a[1])))
                ELSE ArgumentTypeError(name)
          [] name = "math.fabs" ->
                IF oneNumber THEN Ret(FloatV(Abs(NumOf(a[1])), DenOf(a[1])))
                ELSE ArgumentTypeError(name)
          [] name = "math.sin" ->
                IF ~oneNumber THEN ArgumentTypeError(name)
                ELSE IF NumOf(a[1]) = 0 THEN Ret(FloatV(0, 1))
                ELSE Ret(Unmodelled)
          [] name = "abs" ->
                IF oneNumber THEN Ret(NumV(Abs(NumOf(a[1])), DenOf(a[1]), IsFloat(a[1])))
                ELSE ArgumentTypeError(name)
          [] name = "round" ->
                IF oneNumber THEN Ret(IntV(RoundHalfEven(a[1])))
                ELSE IF Len(a) + Len(kw) = 2 /\ Len(a) >= 1 /\ IsNum(a[1])
                    THEN Ret(Unmodelled)
                ELSE ArgumentTypeError(name)
          [] name = "min" -> MinMax(name, a, kw, FALSE)
          [] name = "max" -> MinMax(name, a, kw, TRUE)
          \* lambda *values: sum(values[0]) if len(values) == 1 and
          \*     isinstance(values[0], Iterable) else sum(values)
          [] name = "sum" ->
                IF Len(kw) > 0 THEN ArgumentTypeError(name)
                ELSE IF Len(a) = 1 /\ IsIterable(a[1])
                    THEN SumFrom(Elements(a[1]), 1, IntV(0))
                ELSE SumFrom(a, 1, IntV(0))
          \* the callables a caller supplies
          \* def triple(value): return value * 3
          [] name = "triple" ->
                IF Len(a) = 1 /\ Len(kw) = 0 THEN operator_mul(a[1], IntV(3))
                ELSE IF Len(a) = 0 /\ Len(kw) = 1 /\ kw[1][1] = "value"
                    THEN operator_mul(kw[1][2], IntV(3))
                ELSE ArgumentTypeError(name)
          \* lambda *args, **kwargs: 1
          [] name = "one" -> Ret(IntV(1))
          \* a callable that raises ValueError
          [] name = "boom" -> Raise(Exc("ValueError", <<"boom">>))
          \* a callable that raises SystemExit (sys.exit)
          [] name = "quit" -> Raise(Exc("SystemExit", <<"3">>))

-----------------------------------------------------------------------------
(* The Default Environment.  DEFAULT_FUNCTIONS holds every public callable *)
(* of math and DEFAULT_CONSTANTS every public non-callable; the model      *)
(* keeps floor, fabs and sin of the former and pi, e and tau of the        *)
(* latter (floats to the model's precision), and all five explicit         *)
(* additions.  A mapping is a function from names to values.               *)

DefaultFunctionsInit ==
    [name \in {"floor", "fabs", "sin", "abs", "round", "min", "max", "sum"} |->
        IF name \in {"floor", "fabs", "sin"} THEN Function("math." \o name)
        ELSE Function(name)]

DefaultConstantsInit ==
    [name \in {"pi", "e", "tau"} |->
        CASE name = "pi" -> FloatV(355, 113)
          [] name = "e" -> FloatV(193, 71)
          [] name = "tau" -> FloatV(710, 113)]

\* dict(d) followed by .update(u)
Updated(d, u) ==
    [k \in DOMAIN d \cup DOMAIN u |-> IF k \in DOMAIN u THEN u[k] ELSE d[k]]

\* an optional mapping argument: None, or a mapping
NoMapping == [given |-> FALSE, map |-> <<>>]
Mapping(m) == [given |-> TRUE, map |-> m]
\* the truth value of an optional mapping: None and {} are false
MappingTruthy(m) == m.given /\ DOMAIN m.map # {}

\* _Context(variables, functions)
_Context(variables, functions) == [variables |-> variables, functions |-> functions]

\* a changed _prepare_context: the defaults are laid over the caller's
\* entries, so a default wins where both define a name
_prepare_context_defaults_win(variables, functions, defaultConstants, defaultFunctions) ==
    [context |-> _Context(Updated(variables.map, defaultConstants),
                          Updated(functions.map, defaultFunctions)),
     DEFAULT_CONSTANTS |-> defaultConstants,
     DEFAULT_FUNCTIONS |-> defaultFunctions,
     variables |-> variables,
     functions |-> functions]

\* a changed _prepare_context: without dict(...), so that the merged
\* mappings are the default objects themselves and update() writes to them
_prepare_context_aliased(variables, functions, defaultConstants, defaultFunctions) ==
    LET merged_variables ==
            IF MappingTruthy(variables) THEN Updated(defaultConstants, variables.map)
            ELSE defaultConstants
        merged_functions ==
            IF MappingTruthy(functions) THEN Updated(defaultFunctions, functions.map)
            ELSE defaultFunctions
    IN  [context |-> _Context(merged_variables, merged_functions),
         DEFAULT_CONSTANTS |-> merged_variables,
         DEFAULT_FUNCTIONS |-> merged_functions,
         variables |-> variables,
         functions |-> functions]

(* _prepare_context, on the objects it touches: the two defaults and the   *)
(* two caller mappings.  It returns the context together with those four   *)
(* objects as they are when it returns (it copies the defaults with        *)
(* dict(...) and only reads the caller's mappings, so all four are as they *)
(* were).                                                                  *)
_prepare_context(variables, functions, defaultConstants, defaultFunctions) ==
    LET merged_variables ==
            IF MappingTruthy(variables) THEN Updated(defaultConstants, variables.map)
            ELSE defaultConstants
        merged_functions ==
            IF MappingTruthy(functions) THEN Updated(defaultFunctions, functions.map)
            ELSE defaultFunctions
    IN  [context |-> _Context(merged_variables, merged_functions),
         DEFAULT_CONSTANTS |-> defaultConstants,
         DEFAULT_FUNCTIONS |-> defaultFunctions,
         variables |-> variables,
         functions |-> functions]

-----------------------------------------------------------------------------
(* Syntax trees, as ast.parse builds them.  A node is a record with its    *)
(* class name in kind.  A path, the sequence of child positions from the   *)
(* root, names a node of a tree.                                           *)

NoNode == [kind |-> "None"]
Constant(v) == [kind |-> "Constant", value |-> v]
Name(id, ctx) == [kind |-> "Name", id |-> id, ctx |-> ctx]
List(elts) == [kind |-> "List", elts |-> elts]
Tuple(elts) == [kind |-> "Tuple", elts |-> elts]
Set(elts) == [kind |-> "Set", elts |-> elts]
\* keys[i] is NoNode for an entry **values[i]
Dict(keys, values) == [kind |-> "Dict", keys |-> keys, values |-> values]
\* keyword(arg=name, value=node); named is FALSE for **value, whose arg is None
keyword(named, arg, value) == [named |-> named, arg |-> arg, value |-> value]
Call(func, a, keywords) == [kind |-> "Call", func |-> func, args |-> a, keywords |-> keywords]
BinOp(left, op, right) == [kind |-> "BinOp", left |-> left, op |-> op, right |-> right]
UnaryOp(op, operand) == [kind |-> "UnaryOp", op |-> op, operand |-> operand]
BoolOp(op, values) == [kind |-> "BoolOp", op |-> op, values |-> values]
Compare(left, ops, comparators) ==
    [kind |-> "Compare", left |-> left, ops |-> ops, comparators |-> comparators]
\* a node of any other class (Attribute, Subscript, Lambda, ...)
OtherNode(kind, children) == [kind |-> kind, children |-> children]

\* the log of a walk: entries in the order they happen
\*   "visit"  p kind : visit() entered the node at p
\*   "return" p v    : visit() of the node at p returned v
\*   "raise"  p e    : visit() of the node at p raised e
\*   "invoke" p name : visit_Call at p called context.functions[name]
\*   "callee_return" p v / "callee_raise" p e : how that callee ended
Event(ev, path, what) == [ev |-> ev, path |-> path, what |-> what]

\* the result of a step together with its log
Logged(r, log) == [ok |-> r.ok, val |-> r.val, exc |-> r.exc, trace |-> log]

ChildPaths(path, from, n) == [i \in 1..n |-> Append(path, from + i)]

-----------------------------------------------------------------------------
(* _Evaluator.                                                             *)

RECURSIVE visit(_, _, _)
RECURSIVE VisitFrom(_, _, _, _, _)
RECURSIVE SetFrom(_, _, _, _, _)
RECURSIVE DictFrom(_, _, _, _, _)
RECURSIVE CompareFrom(_, _, _, _, _, _)
RECURSIVE BoolFrom(_, _, _, _, _, _)

\* visit nodes[i..] in order, stopping at the first that raises;
\* acc is the values and the log so far
VisitFrom(nodes, paths, ctx, i, acc) ==
    IF i > Len(nodes) THEN Logged(Ret(acc.val), acc.trace)
    ELSE LET r == visit(nodes[i], paths[i], ctx)
         IN  IF r.ok
                 THEN VisitFrom(nodes, paths, ctx, i + 1,
                                [val |-> Append(acc.val, r.val),
                                 trace |-> acc.trace \o r.trace])
             ELSE Logged(Raise(r.exc), acc.trace \o r.trace)

NothingYet == [val |-> <<>>, trace |-> <<>>]

visit_Constant(node, path, ctx) == Logged(Ret(node.value), <<>>)

\* [self.visit(element) for element in node.elts]
visit_List(node, path, ctx) ==
    LET r == VisitFrom(node.elts, ChildPaths(path, 0, Len(node.elts)), ctx, 1, NothingYet)
    IN  IF r.ok THEN Logged(Ret(ListV(r.val)), r.trace) ELSE r

\* tuple(self.visit(element) for element in node.elts)
visit_Tuple(node, path, ctx) ==
    LET r == VisitFrom(node.elts, ChildPaths(path, 0, Len(node.elts)), ctx, 1, NothingYet)
    IN  IF r.ok THEN Logged(Ret(TupleV(r.val)), r.trace) ELSE r

Unhashable(v) == Raise(Exc("TypeError", <<"unhashable type", v.t>>))

\* {self.visit(element) for element in node.elts}: each value is added to
\* the set as soon as it is computed
SetFrom(node, path, ctx, i, acc) ==
    IF i > Len(node.elts) THEN Logged(Ret(SetV(acc.val)), acc.trace)
    ELSE LET r == visit(node.elts[i], Append(path, i), ctx)
             log == acc.trace \o r.trace
         IN  IF ~r.ok THEN Logged(Raise(r.exc), log)
             ELSE IF ~Hashable(r.val) THEN Logged(Unhashable(r.val), log)
             ELSE SetFrom(node, path, ctx, i + 1,
                          [val |-> IF \E j \in 1..Len(acc.val) : PyEq(acc.val[j], r.val)
                                       THEN acc.val ELSE Append(acc.val, r.val),
                           trace |-> log])

visit_Set(node, path, ctx) == SetFrom(node, path, ctx, 1, NothingYet)

\* d[k] = v on the items of a dict
DictSet(items, k, v) ==
    IF \E j \in 1..Len(items) : PyEq(items[j][1], k)
        THEN [j \in 1..Len(items) |->
                 IF PyEq(items[j][1], k) THEN <<items[j][1], v>> ELSE items[j]]
    ELSE Append(items, <<k, v>>)

\* { self.visit(key) if key is not None else None: self.visit(value)
\*   for key, value in zip(node.keys, node.values, strict=True) }
\* entry i: the key (None when absent), then the value, then the insertion
DictFrom(node, path, ctx, i, acc) ==
    IF i > Len(node.keys) THEN Logged(Ret(DictV(acc.val)), acc.trace)
    ELSE LET k == IF node.keys[i] # NoNode
                      THEN visit(node.keys[i], Append(path, 2 * i - 1), ctx)
                  ELSE Logged(Ret(NoneV), <<>>)
             v == visit(node.values[i], Append(path, 2 * i), ctx)
         IN  IF ~k.ok THEN Logged(Raise(k.exc), acc.trace \o k.trace)
             ELSE IF ~v.ok THEN Logged(Raise(v.exc), acc.trace \o k.trace \o v.trace)
             ELSE IF ~Hashable(k.val)
                 THEN Logged(Unhashable(k.val), acc.trace \o k.trace \o v.trace)
             ELSE DictFrom(node, path, ctx, i + 1,
                           [val |-> DictSet(acc.val, k.val, v.val),
                            trace |-> acc.trace \o k.trace \o v.trace])

visit_Dict(node, path, ctx) == DictFrom(node, path, ctx, 1, NothingYet)

\* a changed visit_Name: a name that is no variable is looked up among
\* the functions
visit_Name_or_function(node, path, ctx) ==
    IF node.id \in DOMAIN ctx.variables THEN Logged(Ret(ctx.variables[node.id]), <<>>)
    ELSE IF node.id \in DOMAIN ctx.functions THEN Logged(Ret(ctx.functions[node.id]), <<>>)
    ELSE Logged(Raise(EvaluationError(<<"Unknown variable", node.id>>)), <<>>)

visit_Name(node, path, ctx) ==
    IF node.ctx = "Load"
        THEN IF node.id \in DOMAIN ctx.variables
                 THEN Logged(Ret(ctx.variables[node.id]), <<>>)
             ELSE Logged(Raise(EvaluationError(<<"Unknown variable", node.id>>)), <<>>)
    ELSE Logged(Raise(EvaluationError(<<"Assignments are not allowed in expressions.">>)), <<>>)

\* {keyword.arg: value for keyword in node.keywords} as <<arg, value>> items;
\* the key of an entry **value is None
KeywordItems(keywords, values) ==
    [i \in 1..Len(keywords) |-> <<keywords[i], values[i]>>]

\* the items as the callee receives them, a later value for a key replacing
\* an earlier one
RECURSIVE KwargsFrom(_, _, _)
KwargsFrom(items, i, acc) ==
    IF i > Len(items) THEN acc
    ELSE LET arg == items[i][1].arg
             same == {j \in 1..Len(acc) : acc[j][1] = arg}
         IN  KwargsFrom(items, i + 1,
                        IF same = {} THEN Append(acc, <<arg, items[i][2]>>)
                        ELSE [j \in 1..Len(acc) |->
                                 IF j \in same THEN <<arg, items[i][2]>> ELSE acc[j]])

\* the callee was invoked and ended as r; a TypeError it raised, as any
\* TypeError of the call, becomes an EvaluationError
Invoked(path, func_name, log, r) ==
    IF ~r.ok /\ r.exc.type = "TypeError"
        THEN Logged(Raise(EvaluationError(r.exc.msg)),
                    log \o <<Event("invoke", path, func_name),
                              Event("callee_raise", path, r.exc)>>)
    ELSE Logged(r, log \o <<Event("invoke", path, func_name),
                             IF r.ok THEN Event("callee_return", path, r.val)
                             ELSE Event("callee_raise", path, r.exc)>>)

\* func(*args, **kwargs) and the return of visit_Call: a are the visited
\* positional arguments, kw the visited keyword values, both without a raise
Invoke(node, path, ctx, a, kw) ==
    LET func_name == node.func.id
        items == KeywordItems(node.keywords, kw.val)
        \* the call needs every key of kwargs to be a string
        called == \A i \in 1..Len(items) : items[i][1].named
    IN  IF called
            THEN Invoked(path, func_name, a.trace \o kw.trace,
                         PythonCall(ctx.functions[func_name], a.val, KwargsFrom(items, 1, <<>>)))
        ELSE Logged(Raise(EvaluationError(<<"keywords must be strings">>)),
                    a.trace \o kw.trace)

\* args and then kwargs are built, the first raise ending the node
WithArguments(node, path, ctx, a, kw) ==
    IF ~a.ok THEN a
    ELSE IF ~kw.ok THEN Logged(Raise(kw.exc), a.trace \o kw.trace)
    ELSE Invoke(node, path, ctx, a, kw)

\* [self.visit(arg) for arg in node.args]
VisitArgs(node, path, ctx) ==
    VisitFrom(node.args, ChildPaths(path, 0, Len(node.args)), ctx, 1, NothingYet)

\* {keyword.arg: self.visit(keyword.value) for keyword in node.keywords}
VisitKeywords(node, path, ctx) ==
    VisitFrom([i \in 1..Len(node.keywords) |-> node.keywords[i].value],
              ChildPaths(path, Len(node.args), Len(node.keywords)), ctx, 1, NothingYet)

\* a changed visit_Call, as WithArguments is to it: the callee is looked up
\* after the arguments are evaluated
ArgumentsFirst(node, path, ctx, a, kw) ==
    IF ~a.ok THEN a
    ELSE IF ~kw.ok THEN Logged(Raise(kw.exc), a.trace \o kw.trace)
    ELSE IF node.func.id \notin DOMAIN ctx.functions
        THEN Logged(Raise(EvaluationError(<<"Unknown function", node.func.id>>)),
                    a.trace \o kw.trace)
    ELSE Invoke(node, path, ctx, a, kw)

\* a changed visit_Call: the arguments are evaluated before the callee is
\* looked up
visit_Call_arguments_first(node, path, ctx) ==
    IF node.func.kind # "Name"
        THEN Logged(Raise(EvaluationError(<<"Only simple function names are allowed.">>)), <<>>)
    ELSE ArgumentsFirst(node, path, ctx,
                        VisitArgs(node, path, ctx), VisitKeywords(node, path, ctx))

visit_Call(node, path, ctx) ==
    IF node.func.kind # "Name"
        THEN Logged(Raise(EvaluationError(<<"Only simple function names are allowed.">>)), <<>>)
    ELSE IF node.func.id \notin DOMAIN ctx.functions
        THEN Logged(Raise(EvaluationError(<<"Unknown function", node.func.id>>)), <<>>)
    ELSE WithArguments(node, path, ctx,
                       VisitArgs(node, path, ctx), VisitKeywords(node, path, ctx))

visit_BinOp(node, path, ctx) ==
    LET op_type == node.op
        left == visit(node.left, Append(path, 1), ctx)
        right == visit(node.right, Append(path, 2), ctx)
    IN  IF op_type \notin DOMAIN _ALLOWED_BIN_OPS
            THEN Logged(Raise(EvaluationError(<<"Operator", op_type, "is not permitted.">>)), <<>>)
        ELSE IF ~left.ok THEN left
        ELSE IF ~right.ok THEN Logged(Raise(right.exc), left.trace \o right.trace)
        ELSE Logged(ApplyBinary(_ALLOWED_BIN_OPS[op_type], left.val, right.val),
                    left.trace \o right.trace)

visit_UnaryOp(node, path, ctx) ==
    LET op_type == node.op
        operand == visit(node.operand, Append(path, 1), ctx)
    IN  IF op_type \notin DOMAIN _ALLOWED_UNARY_OPS
            THEN Logged(Raise(EvaluationError(<<"Unary operator", op_type, "is not permitted.">>)), <<>>)
        ELSE IF ~operand.ok THEN operand
        ELSE Logged(ApplyUnary(_ALLOWED_UNARY_OPS[op_type], operand.val), operand.trace)

\* a changed loop of visit_Compare: left_value is not moved on, so every
\* comparator is compared with the first operand
CompareFrom_first_operand(node, path, ctx, i, left_value, log) ==
    IF i > Len(node.ops) THEN Logged(Ret(BoolV(TRUE)), log)
    ELSE IF node.ops[i] \notin DOMAIN _ALLOWED_COMPARE_OPS
        THEN Logged(Raise(EvaluationError(
                 <<"Comparison operator", node.ops[i], "is not permitted.">>)), log)
    ELSE LET right == visit(node.comparators[i], Append(path, i + 1), ctx)
             holds == ApplyBinary(_ALLOWED_COMPARE_OPS[node.ops[i]], left_value, right.val)
         IN  IF ~right.ok THEN Logged(Raise(right.exc), log \o right.trace)
             ELSE IF ~holds.ok THEN Logged(holds, log \o right.trace)
             ELSE IF ~Truthy(holds.val) THEN Logged(Ret(BoolV(FALSE)), log \o right.trace)
             ELSE CompareFrom(node, path, ctx, i + 1, left_value, log \o right.trace)

\* the loop of visit_Compare from its i-th (operator, comparator) pair on,
\* with left_value and the log so far
CompareFrom(node, path, ctx, i, left_value, log) ==
    IF i > Len(node.ops) THEN Logged(Ret(BoolV(TRUE)), log)
    ELSE IF node.ops[i] \notin DOMAIN _ALLOWED_COMPARE_OPS
        THEN Logged(Raise(EvaluationError(
                 <<"Comparison operator", node.ops[i], "is not permitted.">>)), log)
    ELSE LET right == visit(node.comparators[i], Append(path, i + 1), ctx)
             holds == ApplyBinary(_ALLOWED_COMPARE_OPS[node.ops[i]], left_value, right.val)
         IN  IF ~right.ok THEN Logged(Raise(right.exc), log \o right.trace)
             ELSE IF ~holds.ok THEN Logged(holds, log \o right.trace)
             ELSE IF ~Truthy(holds.val) THEN Logged(Ret(BoolV(FALSE)), log \o right.trace)
             ELSE CompareFrom(node, path, ctx, i + 1, right.val, log \o right.trace)

visit_Compare(node, path, ctx) ==
    LET left == visit(node.left, Append(path, 1), ctx)
    IN  IF ~left.ok THEN left
        ELSE CompareFrom(node, path, ctx, 1, left.val, left.trace)

\* all(values) (isAll) or any(values) over the generator
\* (self.visit(value) for value in node.values): the generator visits an
\* operand only when all / any asks for the next value, and all stops at
\* the first false value, any at the first true one
BoolFrom(node, path, ctx, i, isAll, log) ==
    IF i > Len(node.values) THEN Logged(Ret(BoolV(isAll)), log)
    ELSE LET r == visit(node.values[i], Append(path, i), ctx)
         IN  IF ~r.ok THEN Logged(Raise(r.exc), log \o r.trace)
             ELSE IF Truthy(r.val) # isAll THEN Logged(Ret(BoolV(~isAll)), log \o r.trace)
             ELSE BoolFrom(node, path, ctx, i + 1, isAll, log \o r.trace)

\* a changed visit_BoolOp: the operands are visited into a list before
\* all / any sees them
visit_BoolOp_eager(node, path, ctx) ==
    LET r == VisitFrom(node.values, ChildPaths(path, 0, Len(node.values)), ctx, 1, NothingYet)
        truths == {Truthy(r.val[k]) : k \in 1..Len(r.val)}
    IN  IF node.op \notin DOMAIN _ALLOWED_BOOL_OPS
            THEN Logged(Raise(EvaluationError(<<"Boolean operator", node.op, "is not permitted.">>)), <<>>)
        ELSE IF ~r.ok THEN r
        ELSE IF _ALLOWED_BOOL_OPS[node.op] = "all"
            THEN Logged(Ret(BoolV(FALSE \notin truths)), r.trace)
        ELSE Logged(Ret(BoolV(TRUE \in truths)), r.trace)

visit_BoolOp(node, path, ctx) ==
    LET op_type == node.op
    IN  IF op_type \notin DOMAIN _ALLOWED_BOOL_OPS
            THEN Logged(Raise(EvaluationError(<<"Boolean operator", op_type, "is not permitted.">>)), <<>>)
        ELSE BoolFrom(node, path, ctx, 1, _ALLOWED_BOOL_OPS[op_type] = "all", <<>>)

\* a changed generic_visit: the one NodeVisitor has, which visits the
\* children and returns None
generic_visit_inherited(node, path, ctx) ==
    LET r == VisitFrom(node.children, ChildPaths(path, 0, Len(node.children)), ctx, 1,
                       NothingYet)
    IN  IF r.ok THEN Logged(Ret(NoneV), r.trace) ELSE r

generic_visit(node, path, ctx) ==
    Logged(Raise(EvaluationError(<<"Unsupported expression component", node.kind>>)), <<>>)

\* ast.NodeVisitor.visit: getattr(self, 'visit_' + classname, self.generic_visit)
NodeVisitor_visit(node, path, ctx) ==
    CASE node.kind = "Constant" -> visit_Constant(node, path, ctx)
      [] node.kind = "List" -> visit_List(node, path, ctx)
      [] node.kind = "Tuple" -> visit_Tuple(node, path, ctx)
      [] node.kind = "Set" -> visit_Set(node, path, ctx)
      [] node.kind = "Dict" -> visit_Dict(node, path, ctx)
      [] node.kind = "Name" -> visit_Name(node, path, ctx)
      [] node.kind = "Call" -> visit_Call(node, path, ctx)
      [] node.kind = "BinOp" -> visit_BinOp(node, path, ctx)
      [] node.kind = "UnaryOp" -> visit_UnaryOp(node, path, ctx)
      [] node.kind = "Compare" -> visit_Compare(node, path, ctx)
      [] node.kind = "BoolOp" -> visit_BoolOp(node, path, ctx)
      [] OTHER -> generic_visit(node, path, ctx)

\* the except clauses of _Evaluator.visit: EvaluationError passes, any other
\* Exception becomes EvaluationError(str(exc)), what is no Exception passes
Caught(r) ==
    IF r.ok \/ r.exc.type = "EvaluationError" \/ ~IsException(r.exc) THEN r
    ELSE Logged(Raise(EvaluationError(r.exc.msg)), r.trace)

\* out, the end of visit(node), between the log entries of its visit
Entered(node, path, out) ==
    Logged(out, <<Event("visit", path, node.kind)>> \o out.trace
                \o <<IF out.ok THEN Event("return", path, out.val)
                     ELSE Event("raise", path, out.exc)>>)

visit(node, path, ctx) == Entered(node, path, Caught(NodeVisitor_visit(node, path, ctx)))

-----------------------------------------------------------------------------
(* The entry point.                                                        *)

(* The expression argument.  A text is modelled by what ast.parse makes of *)
(* it in mode "eval":                                                      *)
(*   "expression" : one expression; body is its tree                       *)
(*   "statement"  : a statement ("import os", "x = 1"): a SyntaxError      *)
(*   "malformed"  : no Python at all ("1 +"): a SyntaxError                *)
(*   "too_deep"   : nested too deeply for the parser ("-" * 100000 + "1"): *)
(*                  a MemoryError or RecursionError, by interpreter build  *)
(*   "blank"      : empty, or white space only                             *)
(*   "not_a_string" : an object that is no str                             *)
Text(form, body) == [form |-> form, body |-> body]

ParserFaults == {"MemoryError", "RecursionError"}

\* ast.parse(expression, mode="eval"), with fault the class the parser
\* raises on a text nested too deeply
ast_parse(expression, fault) ==
    CASE expression.form = "expression" -> Ret(expression.body)
      [] expression.form \in {"statement", "malformed"} ->
            Raise(Exc("SyntaxError", <<"invalid syntax">>))
      [] expression.form = "too_deep" -> Raise(Exc(fault, <<"too deep">>))

NoContext == _Context(<<>>, <<>>)
NoOutcome == [status |-> "none", val |-> NoneV, exc |-> NoExc]
Returned(v) == [status |-> "returned", val |-> v, exc |-> NoExc]
Raised(e) == [status |-> "raised", val |-> NoneV, exc |-> e]

\* what a call leaves behind: its outcome and log, the context it built, and
\* the four mapping objects as they are when it ends
CallResult(result, log, ctx, dc, df, variables, functions) ==
    [outcome |-> result, trace |-> log, context |-> ctx,
     DEFAULT_CONSTANTS |-> dc, DEFAULT_FUNCTIONS |-> df,
     variables |-> variables, functions |-> functions]

\* the end of a call whose expression parsed: r is what visit made of the
\* tree under the prepared context
Evaluated(r, prepared) ==
    CallResult(IF r.ok THEN Returned(r.val) ELSE Raised(r.exc),
               r.trace, prepared.context,
               prepared.DEFAULT_CONSTANTS, prepared.DEFAULT_FUNCTIONS,
               prepared.variables, prepared.functions)

evaluate_expression(expression, variables, functions, fault, dc, df) ==
    IF expression.form \in {"not_a_string", "blank"}
        THEN CallResult(Raised(EvaluationError(<<"The expression must be a non-empty string.">>)),
                        <<>>, NoContext, dc, df, variables, functions)
    ELSE
        LET parsed == ast_parse(expression, fault)
            prepared == _prepare_context(variables, functions, dc, df)
        IN  IF ~parsed.ok
                THEN CallResult(
                         IF parsed.exc.type = "SyntaxError"
                             THEN Raised(EvaluationError(<<"Invalid expression syntax.">>))
                         ELSE Raised(parsed.exc),
                         <<>>, NoContext, dc, df, variables, functions)
            ELSE Evaluated(visit(parsed.val, <<>>, prepared.context), prepared)

-----------------------------------------------------------------------------
(* The calls of the model: syntax trees the parser can build, up to the    *)
(* bounds, and the mappings a caller passes.                               *)

SeqsOf(S, lo, hi) == UNION {[1..k -> S] : k \in lo..hi}

Load(id) == Name(id, "Load")
Num(n) == Constant(IntV(n))
\* one(): a call without arguments
CallOne == Call(Load("one"), <<>>, <<>>)
\* x.real: a node of an unsupported class, with a child
AttributeNode == OtherNode("Attribute", <<Load("x")>>)

OperandNodes == {Num(0), Num(1), Num(2), Load("x"), Load("missing"), CallOne, AttributeNode}
ChainNodes == {Num(0), Num(1), Load("missing"), CallOne}
ElementNodes == {Num(0), Num(1), Load("missing"), List(<<Num(1)>>)}
ArgumentNodes == {Num(1), Load("missing"), Load("m"), OtherNode("Starred", <<Load("m")>>)}
KeyNodes == {NoNode, Num(0), Num(1), Load("missing")}
ValueNodes == {Num(1), Load("m"), Load("missing")}

\* BitOr, Invert, In and Is are operator classes outside the tables
BinOpKinds == DOMAIN _ALLOWED_BIN_OPS \cup {"BitOr"}
UnaryOpKinds == DOMAIN _ALLOWED_UNARY_OPS \cup {"Invert"}
BoolOpKinds == {"And", "Or"}
CompareOpKinds == {"Lt", "Eq", "In"}

BinOpTrees == {BinOp(l, op, r) : l \in OperandNodes, op \in BinOpKinds, r \in OperandNodes}
UnaryOpTrees == {UnaryOp(op, x) : op \in UnaryOpKinds, x \in OperandNodes}
\* a BoolOp has two operands or more
BoolOpTrees ==
    {BoolOp(op, vs) : op \in BoolOpKinds, vs \in SeqsOf(OperandNodes, 2, MaxOperands + 1)}
CompareTrees ==
    UNION {{Compare(l, ops, cs) : l \in ChainNodes, ops \in [1..k -> CompareOpKinds],
                                  cs \in [1..k -> ChainNodes]} : k \in 1..MaxChain}
ContainerTrees ==
    {List(es) : es \in SeqsOf(ElementNodes, 0, MaxOperands)}
    \cup {Tuple(es) : es \in SeqsOf(ElementNodes, 0, MaxOperands)}
    \cup {Set(es) : es \in SeqsOf(ElementNodes, 1, MaxOperands)}
DictTrees ==
    UNION {{Dict(ks, vs) : ks \in [1..k -> KeyNodes], vs \in [1..k -> ValueNodes]}
           : k \in 0..MaxEntries}

CalleeNodes ==
    {Load(f) : f \in {"floor", "sum", "max", "triple", "one", "boom", "quit", "nofn"}}
    \cup {AttributeNode}
KeywordLists ==
    {<<>>,
     <<keyword(TRUE, "value", Num(1))>>,
     <<keyword(TRUE, "value", Load("missing"))>>,
     <<keyword(FALSE, "", Load("m"))>>,
     <<keyword(TRUE, "value", Num(1)), keyword(FALSE, "", Load("m"))>>}
CallTrees ==
    {Call(f, a, kw) : f \in CalleeNodes, a \in SeqsOf(ArgumentNodes, 0, MaxOperands),
                      kw \in KeywordLists}

\* the expressions of the tests and of the documentation, and one node of
\* each unsupported class
ExampleTrees ==
    {BinOp(Num(2), "Add", BinOp(Num(2), "Mult", Num(3))),
     BoolOp("And", <<Compare(Num(3), <<"Gt">>, <<Num(2)>>), Compare(Num(1), <<"Lt">>, <<Num(4)>>)>>),
     BinOp(BinOp(Load("pi"), "Add", Load("tau")), "Add", Load("e")),
     Call(Load("triple"), <<Num(4)>>, <<>>),
     Call(Load("sum"), <<List(<<Num(1), Num(2), Num(3)>>)>>, <<>>),
     Call(Load("sum"), <<Num(1), Num(2), Num(3)>>, <<>>),
     Call(Load("sin"), <<Num(0)>>, <<>>),
     Call(Load("floor"), <<BinOp(Load("pi"), "Div", Num(2))>>, <<>>),
     Call(Load("one"), <<CallOne, Call(Load("boom"), <<>>, <<>>)>>, <<>>),
     BoolOp("And", <<Constant(BoolV(FALSE)), Load("missing")>>),
     BoolOp("Or", <<Constant(BoolV(TRUE)), Load("missing")>>),
     Compare(Load("missing"), <<"In">>, <<List(<<Num(1)>>)>>),
     Compare(CallOne, <<"Is">>, <<Constant(NoneV)>>),
     Compare(Num(1), <<"Lt">>, <<Constant(NoneV)>>),
     BinOp(Load("sin"), "Add", Num(1)),
     Load("pi"), Load("sin"), Load("x"), Load("m"), Load("missing"), Num(1),
     AttributeNode,
     OtherNode("Subscript", <<Load("m"), Num(0)>>),
     OtherNode("Lambda", <<Num(1)>>),
     OtherNode("ListComp", <<Load("x")>>),
     OtherNode("NamedExpr", <<Name("y", "Store"), Num(1)>>),
     OtherNode("IfExp", <<Num(1), CallOne, Load("missing")>>)}

Trees ==
    BinOpTrees \cup UnaryOpTrees \cup BoolOpTrees \cup CompareTrees
    \cup ContainerTrees \cup DictTrees \cup CallTrees \cup ExampleTrees

Expressions ==
    {Text("expression", t) : t \in Trees}
    \cup {Text(f, NoNode) : f \in {"statement", "malformed", "too_deep", "blank", "not_a_string"}}

\* the callables and variables a caller passes
CallerVariables1 == [name \in {"x", "m"} |->
                        IF name = "x" THEN IntV(1) ELSE DictV(<<<<IntV(0), IntV(1)>>>>)]
CallerVariables2 == [name \in {"x", "pi"} |-> IF name = "x" THEN IntV(0) ELSE IntV(3)]
CallerFunctions1 == [name \in {"one", "triple", "boom", "quit"} |-> Function(name)]
CallerFunctions2 == [name \in {"floor", "sin"} |->
                        IF name = "floor" THEN Function("one") ELSE Function("triple")]

Mappings ==
    {<<NoMapping, NoMapping>>,
     <<Mapping(<<>>), Mapping(<<>>)>>,
     <<Mapping(CallerVariables1), Mapping(CallerFunctions1)>>,
     <<Mapping(CallerVariables2), Mapping(CallerFunctions2)>>,
     <<Mapping(CallerVariables1), NoMapping>>,
     <<NoMapping, Mapping(CallerFunctions1)>>}

Arguments(expression, variables, functions, fault) ==
    [expression |-> expression, variables |-> variables, functions |-> functions,
     fault |-> fault]

Inputs ==
    {Arguments(e, m[1], m[2], f) :
        e \in Expressions, m \in Mappings, f \in ParserFaults}

\* the calls of SpecCalls, where calls follow one another
CallTexts ==
    {Text("expression", t) :
        t \in {Load("pi"), Load("x"), BinOp(Load("x"), "Add", Load("pi")),
               Call(Load("floor"), <<Load("e")>>, <<>>), CallOne,
               Call(Load("sin"), <<Num(0)>>, <<>>)}}
    \cup {Text("statement", NoNode)}
CallInputs ==
    {Arguments(e, m[1], m[2], "MemoryError") : e \in CallTexts, m \in Mappings}

-----------------------------------------------------------------------------
(* The state machine.                                                      *)

NoFirst == [set |-> FALSE, args |-> Arguments(Text("blank", NoNode), NoMapping, NoMapping, "MemoryError"),
            outcome |-> NoOutcome]

\* a caller is about to call evaluate_expression(**a)
Calling(a) ==
    /\ pc = "called"
    /\ args = a
    /\ callerVariables = a.variables
    /\ callerFunctions = a.functions
    /\ context = NoContext
    /\ outcome = NoOutcome
    /\ trace = <<>>

Init ==
    /\ DEFAULT_CONSTANTS = DefaultConstantsInit
    /\ DEFAULT_FUNCTIONS = DefaultFunctionsInit
    /\ \E a \in Inputs : (a.fault = "MemoryError" \/ a.expression.form = "too_deep") /\ Calling(a)
    /\ first = NoFirst
    /\ calls = 1

InitCalls ==
    /\ DEFAULT_CONSTANTS = DefaultConstantsInit
    /\ DEFAULT_FUNCTIONS = DefaultFunctionsInit
    /\ \E a \in CallInputs : Calling(a)
    /\ first = NoFirst
    /\ calls = 1

\* one call of evaluate_expression, from entry to return or raise
EvaluateExpression ==
    /\ pc = "called"
    /\ \E r \in {evaluate_expression(args.expression, args.variables, args.functions,
                                      args.fault, DEFAULT_CONSTANTS, DEFAULT_FUNCTIONS)} :
           /\ outcome' = r.outcome
           /\ trace' = r.trace
           /\ context' = r.context
           /\ DEFAULT_CONSTANTS' = r.DEFAULT_CONSTANTS
           /\ DEFAULT_FUNCTIONS' = r.DEFAULT_FUNCTIONS
           /\ callerVariables' = r.variables
           /\ callerFunctions' = r.functions
           /\ first' = IF first.set THEN first
                       ELSE [set |-> TRUE, args |-> args, outcome |-> r.outcome]
    /\ pc' = "done"
    /\ UNCHANGED <<args, calls>>

\* the caller makes its next call
NextCall ==
    /\ pc = "done"
    /\ calls < MaxCalls
    /\ \E a \in CallInputs :
        /\ pc' = "called"
        /\ args' = a
        /\ callerVariables' = a.variables
        /\ callerFunctions' = a.functions
    /\ context' = NoContext
    /\ outcome' = NoOutcome
    /\ trace' = <<>>
    /\ calls' = calls + 1
    /\ UNCHANGED <<DEFAULT_CONSTANTS, DEFAULT_FUNCTIONS, first>>

Next == EvaluateExpression

Spec == Init /\ [][Next]_vars

NextCalls == EvaluateExpression \/ NextCall

SpecCalls == InitCalls /\ [][NextCalls]_vars

\* no call of the model meets a result the model does not compute
RECURSIVE HasUnmodelled(_)
HasUnmodelled(v) ==
    \/ v.t = "unmodelled"
    \/ v.t \in {"list", "tuple", "set"} /\ \E i \in 1..Len(v.v) : HasUnmodelled(v.v[i])
    \/ v.t = "dict" /\ \E i \in 1..Len(v.v) : HasUnmodelled(v.v[i][1]) \/ HasUnmodelled(v.v[i][2])

NoUnmodelled ==
    \A i \in 1..Len(trace) :
        trace[i].ev \in {"return", "callee_return"} => ~HasUnmodelled(trace[i].what)

-----------------------------------------------------------------------------
(* Reading the log of the call that has just ended.                        *)

Done == pc = "done"
\* the tree the call walked
Tree == args.expression.body

\* the child of node at position k, in the numbering of the paths
ChildAt(node, k) ==
    CASE node.kind \in {"List", "Tuple", "Set"} -> node.elts[k]
      [] node.kind = "Dict" ->
            IF k = 2 * (k \div 2) THEN node.values[k \div 2] ELSE node.keys[(k + 1) \div 2]
      [] node.kind = "Call" ->
            IF k <= Len(node.args) THEN node.args[k]
            ELSE node.keywords[k - Len(node.args)].value
      [] node.kind = "BinOp" -> IF k = 1 THEN node.left ELSE node.right
      [] node.kind = "UnaryOp" -> node.operand
      [] node.kind = "BoolOp" -> node.values[k]
      [] node.kind = "Compare" -> IF k = 1 THEN node.left ELSE node.comparators[k - 1]
      [] OTHER -> node.children[k]

RECURSIVE NodeAt(_, _)
NodeAt(node, path) ==
    IF path = <<>> THEN node ELSE NodeAt(ChildAt(node, Head(path)), Tail(path))

\* the positions of the children of a node that its visitor evaluates, in
\* the order the language evaluates them
ChildOrder(node) ==
    CASE node.kind \in {"List", "Tuple", "Set"} -> [k \in 1..Len(node.elts) |-> k]
      [] node.kind = "Dict" ->
            LET Present(k) == k = 2 * (k \div 2) \/ node.keys[(k + 1) \div 2] # NoNode
            IN  SelectSeq([k \in 1..(2 * Len(node.keys)) |-> k], Present)
      [] node.kind = "Call" -> [k \in 1..(Len(node.args) + Len(node.keywords)) |-> k]
      [] node.kind = "BinOp" -> <<1, 2>>
      [] node.kind = "UnaryOp" -> <<1>>
      [] node.kind = "BoolOp" -> [k \in 1..Len(node.values) |-> k]
      [] node.kind = "Compare" -> [k \in 1..(Len(node.comparators) + 1) |-> k]
      [] OTHER -> <<>>

Entries == 1..Len(trace)
IsVisit(i, kind) == trace[i].ev = "visit" /\ trace[i].what = kind
VisitsOf(q) == {i \in Entries : trace[i].ev = "visit" /\ trace[i].path = q}
ExitsOf(q) == {i \in Entries : trace[i].ev \in {"return", "raise"} /\ trace[i].path = q}
Visited(q) == VisitsOf(q) # {}
VisitOf(q) == CHOOSE i \in VisitsOf(q) : TRUE
ExitOf(q) == CHOOSE i \in ExitsOf(q) : TRUE
ReturnedAt(q) == \E i \in ExitsOf(q) : trace[i].ev = "return"
RaisedAt(q) == \E i \in ExitsOf(q) : trace[i].ev = "raise"
\* the value (or the exception) the node at q ended with
ResultAt(q) == trace[ExitOf(q)].what
\* the entry that follows entry i is ev at the same node, with what
FollowedBy(i, ev, what) ==
    i < Len(trace) /\ trace[i + 1] = Event(ev, trace[i].path, what)

\* the children of the node at p (a tree node) that were evaluated are its
\* first m in evaluation order, one after the other, each once, and every
\* one but the last returned a value
EvaluatedInOrder(node, p, m) ==
    LET order == ChildOrder(node)
    IN  /\ m \in 0..Len(order)
        /\ \A k \in 1..Len(order) :
              /\ Visited(Append(p, order[k])) <=> k <= m
              /\ Cardinality(VisitsOf(Append(p, order[k]))) <= 1
              /\ Cardinality(ExitsOf(Append(p, order[k]))) <= 1
        /\ \A k \in 1..m : VisitOf(p) < VisitOf(Append(p, order[k]))
        /\ \A k \in 1..(m - 1) :
              /\ ReturnedAt(Append(p, order[k]))
              /\ ExitOf(Append(p, order[k])) < VisitOf(Append(p, order[k + 1]))

\* how many children of the node at p were evaluated
EvaluatedCount(node, p) ==
    Cardinality({k \in 1..Len(ChildOrder(node)) : Visited(Append(p, ChildOrder(node)[k]))})

-----------------------------------------------------------------------------
(* The claims.                                                             *)

\* C1: every call ends by returning a value or by raising EvaluationError;
\* no exception of another class leaves evaluate_expression.
C1_OnlyEvaluationError ==
    Done => \/ outcome.status = "returned"
            \/ outcome.status = "raised" /\ outcome.exc.type = "EvaluationError"

SupportedKinds ==
    {"Constant", "List", "Tuple", "Set", "Dict", "Name", "Call", "BinOp", "UnaryOp",
     "BoolOp", "Compare"}

UnsupportedComponent(kind) == EvaluationError(<<"Unsupported expression component", kind>>)

\* C2: a visited node of a class outside the enumerated kinds raises
\* EvaluationError "Unsupported expression component: <kind>" at once (none
\* of its children is visited), that error is the outcome of the call and no
\* value is produced; and a text that is a statement fails with
\* EvaluationError before any node is visited or any function invoked.
C2_UnsupportedRejected ==
    Done =>
        /\ \A i \in Entries :
              trace[i].ev = "visit" /\ trace[i].what \notin SupportedKinds =>
                  /\ FollowedBy(i, "raise", UnsupportedComponent(trace[i].what))
                  /\ outcome = Raised(UnsupportedComponent(trace[i].what))
        /\ args.expression.form = "statement" =>
              /\ outcome.status = "raised"
              /\ outcome.exc.type = "EvaluationError"
              /\ trace = <<>>

\* C2 witness: a call that visited a node of an unsupported class below the
\* root of its tree
C2_Witness ==
    /\ Done
    /\ \E i \in Entries :
          /\ trace[i].ev = "visit"
          /\ trace[i].what \notin SupportedKinds
          /\ trace[i].path # <<>>
          /\ Len(NodeAt(Tree, trace[i].path).children) > 0

UnknownVariable(id) == EvaluationError(<<"Unknown variable", id>>)

\* C3: a visited identifier in read position returns the value bound to its
\* name in the merged variables of the call, and raises EvaluationError
\* "Unknown variable '<name>'" when the name is not among them, whether or
\* not it names a function; the call then fails with that error.
C3_NameLookup ==
    Done =>
        \A i \in Entries :
            IsVisit(i, "Name") /\ NodeAt(Tree, trace[i].path).ctx = "Load" =>
                LET id == NodeAt(Tree, trace[i].path).id
                IN  IF id \in DOMAIN context.variables
                        THEN FollowedBy(i, "return", context.variables[id])
                    ELSE /\ FollowedBy(i, "raise", UnknownVariable(id))
                         /\ outcome = Raised(UnknownVariable(id))

\* C3 witness: a call that read, below the root of its tree, a name bound
\* in the functions of the call and not in its variables
C3_Witness ==
    /\ Done
    /\ \E i \in Entries :
          /\ IsVisit(i, "Name")
          /\ trace[i].path # <<>>
          /\ NodeAt(Tree, trace[i].path).id \in DOMAIN context.functions
          /\ NodeAt(Tree, trace[i].path).id \notin DOMAIN context.variables

\* the entry of a merged mapping for name, given the caller's mapping and
\* the default one: the three cases of C4
MergedAsClaimed(merged, caller, default) ==
    \A name \in DOMAIN merged \cup DOMAIN default \cup DOMAIN caller.map :
        IF caller.given /\ name \in DOMAIN caller.map
            THEN name \in DOMAIN merged /\ merged[name] = caller.map[name]
        ELSE IF name \in DOMAIN default
            THEN name \in DOMAIN merged /\ merged[name] = default[name]
        ELSE name \notin DOMAIN merged

\* C4: in the context built for a call, a name of the caller's mapping has
\* the caller's entry, also when the defaults define it; a name of the
\* defaults alone has the default entry; a name of neither is absent; for
\* the variables and for the functions.
C4_MergedContext ==
    Done /\ context # NoContext =>
        /\ MergedAsClaimed(context.variables, args.variables, DefaultConstantsInit)
        /\ MergedAsClaimed(context.functions, args.functions, DefaultFunctionsInit)

\* C4 witness: a call whose caller overrides the constant pi and the
\* function floor, which the call then invokes
C4_Witness ==
    /\ Done
    /\ args.variables.given /\ "pi" \in DOMAIN args.variables.map
    /\ context.variables["pi"] # DefaultConstantsInit["pi"]
    /\ context.functions["floor"] # DefaultFunctionsInit["floor"]
    /\ \E i \in Entries : trace[i].ev = "invoke" /\ trace[i].what = "floor"

\* C5: at every point of every sequence of calls, the two default
\* mappings are as they were built and the caller's mappings are as they
\* were passed; and a call with the arguments of the first call of the
\* sequence ends as that call ended, whatever calls ran in between.
C5_NoCarriedState ==
    /\ DEFAULT_CONSTANTS = DefaultConstantsInit
    /\ DEFAULT_FUNCTIONS = DefaultFunctionsInit
    /\ callerVariables = args.variables
    /\ callerFunctions = args.functions
    /\ Done /\ first.set /\ first.args = args => outcome = first.outcome

\* C5 witness: the third call or a later one has the arguments of the first,
\* overrides a default constant and a default function, and has ended
C5_Witness ==
    /\ Done
    /\ calls >= 3
    /\ first.set /\ first.args = args
    /\ args.variables.given /\ "pi" \in DOMAIN args.variables.map
    /\ args.functions.given /\ "floor" \in DOMAIN args.functions.map
    /\ outcome.status = "returned"

\* a boolean operand value that decides the operation: a false one for
\* And, a true one for Or
Decides(op, v) == Truthy(v) # (op = "And")

Forbidden(node) ==
    CASE node.kind = "BinOp" -> {node.op} \ DOMAIN _ALLOWED_BIN_OPS
      [] node.kind = "UnaryOp" -> {node.op} \ DOMAIN _ALLOWED_UNARY_OPS
      [] node.kind = "BoolOp" -> {node.op} \ DOMAIN _ALLOWED_BOOL_OPS
      [] node.kind = "Compare" ->
            {node.ops[k] : k \in 1..Len(node.ops)} \ DOMAIN _ALLOWED_COMPARE_OPS
      [] OTHER -> {}

\* C7: a visited operation with an operator kind outside its table raises
\* the "not permitted" error naming that kind before any of its operands
\* is evaluated.
C7_OperatorCheckedFirst ==
    Done =>
        \A i \in Entries :
            trace[i].ev = "visit" /\ Forbidden(NodeAt(Tree, trace[i].path)) # {} =>
                /\ i < Len(trace)
                /\ trace[i + 1].ev = "raise"
                /\ trace[i + 1].path = trace[i].path
                /\ trace[i + 1].what.type = "EvaluationError"
                /\ Len(trace[i + 1].what.msg) = 3
                /\ trace[i + 1].what.msg[2] \in Forbidden(NodeAt(Tree, trace[i].path))
                /\ trace[i + 1].what.msg[3] = "is not permitted."

\* whether the k-th pairwise comparison of the chain at p holds, on the
\* values its two operands returned
PairHolds(node, p, k) ==
    Truthy(ApplyBinary(_ALLOWED_COMPARE_OPS[node.ops[k]],
                       ResultAt(Append(p, k)), ResultAt(Append(p, k + 1))).val)

\* C8: a comparison chain with whitelisted operators evaluates its operands
\* from left to right, each once; it goes on to the next operand only when
\* the comparison of the last two holds; when it returns, it returns False
\* if the last comparison made fails (the operands after it are not
\* evaluated) and True if all operands were evaluated and every pairwise
\* comparison holds: the conjunction of the pairwise comparisons.
C8_ComparisonChain ==
    Done =>
        \A i \in Entries :
            IsVisit(i, "Compare") /\ Forbidden(NodeAt(Tree, trace[i].path)) = {} =>
                LET p == trace[i].path
                    node == NodeAt(Tree, p)
                    n == Len(node.ops)
                    m == EvaluatedCount(node, p)
                IN  /\ m >= 1
                    /\ EvaluatedInOrder(node, p, m)
                    /\ \A k \in 1..(m - 2) : PairHolds(node, p, k)
                    /\ ReturnedAt(p) =>
                          /\ m >= 2
                          /\ ReturnedAt(Append(p, m))
                          /\ ResultAt(p) = BoolV(\A k \in 1..(m - 1) : PairHolds(node, p, k))
                          /\ ResultAt(p) = BoolV(TRUE) => m = n + 1
                          /\ ResultAt(p) = BoolV(m = n + 1 /\ \A k \in 1..n : PairHolds(node, p, k))

\* C8 witness: a chain of two comparisons whose first fails returned False
\* without evaluating its last operand, an unknown variable
C8_Witness ==
    /\ Done
    /\ Tree.kind = "Compare"
    /\ Len(Tree.ops) = 2
    /\ EvaluatedCount(Tree, <<>>) = 2
    /\ Tree.comparators[2] = Load("missing")
    /\ outcome = Returned(BoolV(FALSE))

\* C8 second witness: a chain of two comparisons returned True
C8_WitnessTrue ==
    /\ Done
    /\ Tree.kind = "Compare"
    /\ Len(Tree.ops) = 2
    /\ outcome = Returned(BoolV(TRUE))

\* C9: a visited mapping literal with an entry without a key raises
\* EvaluationError "Unsupported expression component" and returns no
\* mapping; one whose entries all have keys evaluates key, value, key,
\* value, ... from left to right.
C9_SpreadRejected ==
    Done =>
        \A i \in Entries :
            IsVisit(i, "Dict") =>
                LET p == trace[i].path
                    node == NodeAt(Tree, p)
                IN  IF \E k \in 1..Len(node.keys) : node.keys[k] = NoNode
                        THEN /\ RaisedAt(p)
                             /\ ResultAt(p).type = "EvaluationError"
                             /\ ResultAt(p).msg[1] = "Unsupported expression component"
                    ELSE EvaluatedInOrder(node, p, EvaluatedCount(node, p))

OnlySimpleNames == EvaluationError(<<"Only simple function names are allowed.">>)
UnknownFunction(name) == EvaluationError(<<"Unknown function", name>>)
InvokesAt(p) == {j \in Entries : trace[j].ev = "invoke" /\ trace[j].path = p}

=============================================================================
